---- MODULE Spec2Model ----
(***************************************************************************)
(* Model of the Telegram bot's request pipeline: the floodControl          *)
(* middleware with its rate-limit map and periodic sweep, the global       *)
(* middleware chain of the bot, the isAdmin middleware and the gated       *)
(* admin handlers (broadcast, shutdown).                                   *)
(*                                                                         *)
(* Node.js runs one callback at a time, so an action is the code that runs *)
(* between two suspension points (await): the arrival of an update runs    *)
(* the middleware chain synchronously up to the first await, and each      *)
(* "...Settles" action runs the continuation of one await.                 *)
(***************************************************************************)
EXTENDS Integers, Sequences, FiniteSets, TLC

\* ---------------------------------------------------------------- bounds
MaxUpdates == 2          \* updates received in one behaviour
MaxTicks   == 2          \* clock ticks in one behaviour
TickMs     == 1000       \* milliseconds the clock advances per tick
MaxRecipients == 3       \* user records in the directory
BatchSize  == 2          \* broadcast.js:152 sets 30; scaled down with the directory

\* ------------------------------------------------------- program constants
DefaultMaxRequests == 5      \* floodControl.js:23
DefaultTimeWindow  == 60000  \* floodControl.js:24

\* ------------------------------------------------------------- input sets
NoFrom    == 0                       \* ctx.from is undefined (e.g. a channel post)
OwnerId   == 1
UserIds   == {1, 2, 3}               \* Telegram user ids are positive
\* A JavaScript value that may be undefined: <<>> is undefined, <<v>> is v.
AdminsChoices      == {<<>>, <<{2}>>, <<{1, 2}>>}
MaxRequestsChoices == {<<>>, <<-1>>, <<0>>, <<1>>}
TimeWindowChoices  == {<<>>, <<-1000>>, <<0>>, <<2000>>}
\* the updates of the admission runs: a command of a user, or an update without sender
AdmitShapes == {<<u, "start">> : u \in UserIds} \cup {<<NoFrom, "other">>}
\* the updates of the gating runs: every kind of update of every user
GateShapes  == (UserIds \X {"start", "action", "broadcast", "shutdown"}) \cup {<<NoFrom, "other">>}

VARIABLES
  config,        \* config.json, read once at start-up
  now,           \* Date.now()
  userRequests,  \* floodControl.js:5, the Map userId -> array of timestamps
  reqs,          \* the updates received so far, each with the position of its task
  exited,        \* process.exit() was called
  directory,     \* data/users.json, the user records in file order
  jobs,          \* the invocations of broadcast's execute, one per invoking admin
  logTasks,      \* the calls of logger.log that have not finished
  logFile,       \* data/logs.json
  logSettled,    \* the calls of logger.log that have finished, with their outcome
  counts,        \* data/users.json, the command_count of each record
  dirTasks       \* the calls of addUser, incrementCommandCount and updateUserActivity

\* the state of the broadcast command, of the user directory and of the log store
bvars == <<directory, jobs, logTasks, logFile, logSettled, counts, dirTasks>>

vars == <<config, now, userRequests, reqs, exited, directory, jobs, logTasks, logFile, logSettled, counts, dirTasks>>

\* ------------------------------------------------------------ JS helpers
\* a || b for a number that may be undefined: undefined and 0 are falsy
OrDefault(opt, dflt) == IF opt = <<>> THEN dflt ELSE IF opt[1] = 0 THEN dflt ELSE opt[1]

\* config.ADMINS && config.ADMINS.includes(userId)
AdminsIncludes(userId) == config.ADMINS # <<>> /\ userId \in config.ADMINS[1]

IndexOf(seq, x) == CHOOSE i \in 1..Len(seq) : seq[i] = x

Has(trace, e) == \E i \in 1..Len(trace) : trace[i] = e

\* the first position of e in trace, 0 when absent
Pos(trace, e) == IF Has(trace, e) THEN CHOOSE i \in 1..Len(trace) : trace[i] = e /\ \A j \in 1..(i-1) : trace[j] # e ELSE 0

\* --------------------------------------------------------- task contexts
\* A context is the request being handled together with the rate-limit map
\* as the synchronous code it runs has left it.
Ev(st, e) == [st EXCEPT !.r.trace = Append(@, e)]

At(st, pc) == [st EXCEPT !.r.pc = pc]

\* a number of JavaScript that may be Infinity
Infinity == [finite |-> FALSE, value |-> 0]

Finite(v) == [finite |-> TRUE, value |-> v]

NewRequest(from, kind) == [from |-> from, kind |-> kind, pc |-> "new", trace |-> <<>>, acceptedAt |-> -1, passedAt |-> -1, isOwner |-> FALSE, isAdmin |-> FALSE, rejectedAt |-> -1, remainingTime |-> Infinity]

\* ------------------------------------------------------ floodControl.js
\* variant: one request more than configured is let through
MaxRequestsOneMore == OrDefault(config.MAX_REQUESTS, DefaultMaxRequests) + 1

MaxRequests == OrDefault(config.MAX_REQUESTS, DefaultMaxRequests)

\* variant: timestamps are counted for twice the configured window
TimeWindowDoubled == 2 * OrDefault(config.TIME_WINDOW, DefaultTimeWindow)

TimeWindow == OrDefault(config.TIME_WINDOW, DefaultTimeWindow)

\* variant: only the owner is exempt
IsExemptOwnerOnly(userId) == userId = config.OWNER_ID

IsExempt(userId) == userId = config.OWNER_ID \/ AdminsIncludes(userId)

\* variant: nothing is pruned
ValidRequestsKeepAll(requests, t, timeWindow) == requests

\* requests.filter(timestamp => now - timestamp < timeWindow)
ValidRequests(requests, t, timeWindow) == SelectSeq(requests, LAMBDA timestamp : t - timestamp < timeWindow)

\* variant: the limit test is off by one
OverLimitStrict(validRequests, maxRequests) == Len(validRequests) > maxRequests

OverLimit(validRequests, maxRequests) == Len(validRequests) >= maxRequests

\* Math.min(...validRequests): Infinity for an empty array
MinOf(validRequests) ==
  IF validRequests = <<>> THEN Infinity
  ELSE Finite(CHOOSE x \in {validRequests[k] : k \in 1..Len(validRequests)} : \A k \in 1..Len(validRequests) : x <= validRequests[k])

\* Math.ceil(x / 1000) for an integer x
CeilSeconds(x) == IF x >= 0 THEN (x + 999) \div 1000 ELSE -((-x) \div 1000)

\* variant: the time elapsed since the oldest request is reported
RemainingTimeElapsed(validRequests, t, timeWindow) ==
  LET oldestRequest == MinOf(validRequests) IN
  IF oldestRequest.finite THEN Finite(CeilSeconds(t - oldestRequest.value) + 1) ELSE Infinity

\* remainingTime = Math.ceil((timeWindow - (now - oldestRequest)) / 1000)
RemainingTime(validRequests, t, timeWindow) ==
  LET oldestRequest == MinOf(validRequests) IN
  IF oldestRequest.finite THEN Finite(CeilSeconds(timeWindow - (t - oldestRequest.value))) ELSE Infinity

\* ------------------------------------------------ the bot's middleware chain
\* variant: floodControl is registered after the command handlers
MiddlewaresRouterFirst == <<"addUser", "commandLog", "router", "floodControl">>

\* bot.use(...) in registration order; "router" stands for the handlers that
\* loadCommands registers afterwards with bot.command and bot.action
Middlewares == <<"floodControl", "addUser", "commandLog", "router">>

\* variant: admin commands are registered like user commands, without isAdmin
CommandChainUngated(kind) ==
  CASE kind = "start"     -> <<"execute:start">>
    [] kind = "action"    -> <<"action">>
    [] kind = "broadcast" -> <<"execute:broadcast">>
    [] kind = "shutdown"  -> <<"execute:shutdown">>
    [] kind \in {"ytmp4", "ytmp4:noid"} -> <<"execute:ytmp4">>
    [] OTHER              -> <<>>

\* what loadCommands registers for an update of this kind
CommandChain(kind) ==
  CASE kind = "start"     -> <<"execute:start">>
    [] kind = "action"    -> <<"action">>
    [] kind = "broadcast" -> <<"isAdmin", "execute:broadcast">>
    [] kind = "shutdown"  -> <<"isAdmin", "execute:shutdown">>
    [] kind \in {"ytmp4", "ytmp4:noid"} -> <<"execute:ytmp4">>
    [] OTHER              -> <<>>

IsCommand(kind) == kind \in {"start", "broadcast", "shutdown", "ytmp4", "ytmp4:noid"}

RECURSIVE RunHandler(_, _)

\* ------------------------------------------------------------- isAdmin.js
\* variant: the admin list is consulted before the owner id
ClassifyAdminsFirst(userId) ==
  IF AdminsIncludes(userId) THEN [owner |-> FALSE, admin |-> TRUE]
  ELSE IF userId = config.OWNER_ID THEN [owner |-> TRUE, admin |-> TRUE]
  ELSE [owner |-> FALSE, admin |-> FALSE]

\* the flags isAdmin leaves on ctx; next() is called exactly when admin holds
Classify(userId) ==
  IF userId = config.OWNER_ID THEN [owner |-> TRUE, admin |-> TRUE]
  ELSE IF AdminsIncludes(userId) THEN [owner |-> FALSE, admin |-> TRUE]
  ELSE [owner |-> FALSE, admin |-> FALSE]

\* variant: the catch block logs and calls next()
IsAdminCatchOpen(st) == RunHandler(Ev(Ev(Ev(st, "isAdmin.error"), "log:middleware_error"), "isAdmin.next"), 2)

\* catch block of isAdmin: log, reply "System Error", never next()
IsAdminCatch(st) == At(Ev(Ev(Ev(st, "isAdmin.error"), "log:middleware_error"), "reply:system_error"), "isAdmin.errReply")

\* ----------------------------------------------------------- shutdown.js
\* execute(): the owner gate, then the code up to the first await
ShutdownExecute(st) ==
  LET s0 == Ev(st, "execute:shutdown") IN
  IF s0.r.from # config.OWNER_ID
  THEN At(Ev(Ev(s0, "shutdown.deny"), "reply:access_denied"), "shutdown.denyReply")
  ELSE At(Ev(Ev(Ev(s0, "body:shutdown"), "log:admin_command"), "reply:confirm"), "shutdown.confirmReply")

\* catch block of shutdown's execute
ShutdownCatch(st) == At(Ev(Ev(Ev(st, "shutdown.error"), "log:admin_command_error"), "reply:general_error"), "shutdown.errReply")

\* -------------------------------------------------------- download_mp4.js
\* execute() of /ytmp4 with a URL that isValidYouTubeUrl accepts ("ytmp4":
\* a video id can be extracted from it, "ytmp4:noid": none can): the command
\* is logged and incrementCommandCount is awaited
Ytmp4Execute(st) == At(Ev(Ev(st, "execute:ytmp4"), "log:command"), "ytmp4.count")

\* the outer catch of execute
Ytmp4Catch(st) == At(Ev(Ev(Ev(st, "ytmp4.error"), "log:command_error"), "reply:general_error"), "ytmp4.errReply")

\* catch (downloadError): the status message is edited to the error text
Ytmp4DownloadCatch(st) == At(Ev(Ev(st, "ytmp4.downloadError"), "edit:download_failed"), "ytmp4.failEdit")

\* the code after the inner try/catch: the download is logged
Ytmp4Logged(st) == At(Ev(st, "log:download"), "done")

\* fs.writeFileSync throws inside the setTimeout callback: no promise
\* executor is on the stack, the exception is uncaught and the
\* 'uncaughtException' listener calls process.exit(1)
TimerThrows(st) == At(Ev(Ev(st, "uncaughtException"), "exit"), "done")

\* ------------------------------------------- running a registered handler
IsAdminMw(st, h) ==
  LET s0 == Ev(st, "isAdmin") IN
  IF s0.r.from = NoFrom THEN IsAdminCatch(s0)
  ELSE LET c == Classify(s0.r.from) IN
       IF c.admin
       THEN RunHandler(Ev([s0 EXCEPT !.r.isOwner = c.owner, !.r.isAdmin = c.admin], "isAdmin.next"), h + 1)
       ELSE At(Ev(Ev(Ev(s0, "isAdmin.deny"), "log:unauthorized_access"), "reply:access_denied"), "isAdmin.denyReply")

RunHandler(st, h) ==
  LET chain == CommandChain(st.r.kind) IN
  IF h > Len(chain) THEN At(st, "done")
  ELSE CASE chain[h] = "isAdmin"           -> IsAdminMw(st, h)
         [] chain[h] = "execute:shutdown"  -> ShutdownExecute(st)
         [] chain[h] = "execute:ytmp4"     -> Ytmp4Execute(st)
         [] OTHER                          -> At(Ev(st, chain[h]), "body")

\* --------------------------------------------- running the global chain
RECURSIVE RunMiddleware(_, _)

\* variant: the catch block logs and stops the request
FloodCatchClosed(st, i) == At(Ev(st, "log:middleware_error"), "done")

\* catch block of floodControl: log, then next()
FloodCatch(st, i) == RunMiddleware([Ev(Ev(st, "log:middleware_error"), "floodControl.next") EXCEPT !.r.passedAt = now], i + 1)

\* variant: the rejected attempt is stored like an accepted one
RejectRecording(st, userId, m1, validRequests) ==
  At(Ev(Ev(Ev([st EXCEPT !.m = [m1 EXCEPT ![userId] = Append(validRequests, now)], !.r.rejectedAt = now, !.r.remainingTime = RemainingTime(validRequests, now, TimeWindow)],
              "flood.reject"), "log:flood_control_triggered"), "reply:cooldown"), "flood.reply")

\* the limit is reached: the cooldown is computed, logged and replied; the
\* Map keeps the array it held (validRequests is not stored)
Reject(st, userId, m1, validRequests) ==
  At(Ev(Ev(Ev([st EXCEPT !.m = m1, !.r.rejectedAt = now, !.r.remainingTime = RemainingTime(validRequests, now, TimeWindow)],
              "flood.reject"), "log:flood_control_triggered"), "reply:cooldown"), "flood.reply")

\* variant: the accepted request replaces the user's array
AcceptOverwriting(st, userId, m1, validRequests, i) ==
  RunMiddleware([Ev(st, "floodControl.next") EXCEPT !.m = [m1 EXCEPT ![userId] = <<now>>], !.r.acceptedAt = now, !.r.passedAt = now], i + 1)

\* the limit is not reached: now is pushed on validRequests, the array is
\* stored and next() is called, all before the first await
Accept(st, userId, m1, validRequests, i) ==
  RunMiddleware([Ev(st, "floodControl.next") EXCEPT !.m = [m1 EXCEPT ![userId] = Append(validRequests, now)], !.r.acceptedAt = now, !.r.passedAt = now], i + 1)

FloodControl(st, i) ==
  LET s0 == Ev(st, "floodControl")
      userId == st.r.from
  IN
  IF userId = NoFrom THEN FloodCatch(Ev(s0, "floodControl.error"), i)
  ELSE IF IsExempt(userId) THEN RunMiddleware([Ev(s0, "floodControl.next") EXCEPT !.r.passedAt = now], i + 1)
  ELSE LET m1 == IF userId \in DOMAIN s0.m THEN s0.m ELSE s0.m @@ (userId :> <<>>)
           validRequests == ValidRequests(m1[userId], now, TimeWindow)
       IN
       IF OverLimit(validRequests, MaxRequests)
       THEN Reject(s0, userId, m1, validRequests)
       ELSE Accept(s0, userId, m1, validRequests, i)

AddUserMw(st, i) ==
  IF st.r.from # NoFrom THEN At(Ev(st, "addUser"), "addUser.await")
  ELSE RunMiddleware(st, i + 1)

CommandLogMw(st, i) ==
  IF IsCommand(st.r.kind) /\ st.r.from # NoFrom THEN RunMiddleware(Ev(st, "log:command"), i + 1)
  ELSE RunMiddleware(st, i + 1)

Router(st, i) ==
  IF CommandChain(st.r.kind) # <<>> THEN RunHandler(Ev(st, "router"), 1)
  ELSE RunMiddleware(st, i + 1)

RunMiddleware(st, i) ==
  IF i > Len(Middlewares) THEN At(st, "done")
  ELSE CASE Middlewares[i] = "floodControl" -> FloodControl(st, i)
         [] Middlewares[i] = "addUser"      -> AddUserMw(st, i)
         [] Middlewares[i] = "commandLog"   -> CommandLogMw(st, i)
         [] Middlewares[i] = "router"       -> Router(st, i)

\* ----------------------------------------------------------------- state
Configs == [OWNER_ID : {OwnerId}, ADMINS : AdminsChoices, MAX_REQUESTS : MaxRequestsChoices, TIME_WINDOW : TimeWindowChoices]

\* the ids of an array of user records
Ids(ids) == {ids[k] : k \in 1..Len(ids)}

\* records that were registered and have run no command: command_count is 0
NewCounts(ids) == [id \in Ids(ids) |-> 0]

\* the job slot of an admin who has not invoked broadcast
IdleJob == [pc |-> "idle", users |-> <<>>, successCount |-> 0, failureCount |-> 0, processedCount |-> 0, batchIndex |-> 0, sends |-> <<>>, calls |-> <<>>, reports |-> <<>>, editFailures |-> 0, delays |-> 0, final |-> <<>>, fetched |-> FALSE, noUsersReplies |-> 0, completedLogs |-> 0]

\* no broadcast was invoked, the directory and the log store are empty
BroadcastIdle ==
  /\ directory = <<>>
  /\ jobs = [j \in UserIds |-> IdleJob]
  /\ logTasks = {}
  /\ logFile = <<>>
  /\ logSettled = {}
  /\ counts = NewCounts(directory)
  /\ dirTasks = <<>>

\* admission runs: every flood-control setting, user 2 being an admin
InitAdmit ==
  /\ config \in {c \in Configs : c.ADMINS = <<{2}>>}
  /\ now = 0
  /\ userRequests = << >>
  /\ reqs = << >>
  /\ exited = FALSE
  /\ BroadcastIdle

\* gating runs: every admin list, one request per window, and all updates
\* arrive within one reading of the clock
InitGate ==
  /\ config \in {c \in Configs : c.MAX_REQUESTS = <<1>> /\ c.TIME_WINDOW = <<2000>>}
  /\ now = 0
  /\ userRequests = << >>
  /\ reqs = << >>
  /\ exited = FALSE
  /\ BroadcastIdle

Ctx(i) == [r |-> reqs[i], m |-> userRequests]

Commit(i, st) ==
  /\ reqs' = [reqs EXCEPT ![i] = st.r]
  /\ userRequests' = st.m

\* an update arrives: handleUpdate runs the chain up to its first await
Arrive(from, kind) ==
  /\ ~exited
  /\ LET st == RunMiddleware([r |-> NewRequest(from, kind), m |-> userRequests], 1) IN
       /\ reqs' = Append(reqs, st.r)
       /\ userRequests' = st.m
  /\ UNCHANGED <<config, now, exited>>
  /\ UNCHANGED bvars

\* an update arrives, at most MaxUpdates in a behaviour
Update(from, kind) == Len(reqs) < MaxUpdates /\ Arrive(from, kind)

\* the cooldown reply of floodControl settles
FloodReplySettles(i, ok) ==
  /\ ~exited
  /\ reqs[i].pc = "flood.reply"
  /\ IF ok THEN Commit(i, At(Ctx(i), "done"))
     ELSE Commit(i, FloodCatch(Ev(Ctx(i), "floodControl.error"), IndexOf(Middlewares, "floodControl")))
  /\ UNCHANGED <<config, now, exited>>
  /\ UNCHANGED bvars

\* fileHelper.addUser never rejects; the middleware then calls next()
AddUserSettles(i) ==
  /\ ~exited
  /\ reqs[i].pc = "addUser.await"
  /\ Commit(i, RunMiddleware(Ctx(i), IndexOf(Middlewares, "addUser") + 1))
  /\ UNCHANGED <<config, now, exited>>
  /\ UNCHANGED bvars

IsAdminDenyReplySettles(i, ok) ==
  /\ ~exited
  /\ reqs[i].pc = "isAdmin.denyReply"
  /\ IF ok THEN Commit(i, At(Ctx(i), "done"))
     ELSE Commit(i, IsAdminCatch(Ctx(i)))
  /\ UNCHANGED <<config, now, exited>>
  /\ UNCHANGED bvars

\* a rejection of the reply in the catch block reaches bot.catch
IsAdminErrReplySettles(i, ok) ==
  /\ ~exited
  /\ reqs[i].pc = "isAdmin.errReply"
  /\ IF ok THEN Commit(i, At(Ctx(i), "done"))
     ELSE Commit(i, At(Ev(Ev(Ctx(i), "bot.catch"), "log:error"), "done"))
  /\ UNCHANGED <<config, now, exited>>
  /\ UNCHANGED bvars

ShutdownDenyReplySettles(i, ok) ==
  /\ ~exited
  /\ reqs[i].pc = "shutdown.denyReply"
  /\ IF ok THEN Commit(i, At(Ctx(i), "done"))
     ELSE Commit(i, ShutdownCatch(Ctx(i)))
  /\ UNCHANGED <<config, now, exited>>
  /\ UNCHANGED bvars

ShutdownConfirmReplySettles(i, ok) ==
  /\ ~exited
  /\ reqs[i].pc = "shutdown.confirmReply"
  /\ IF ok THEN Commit(i, At(Ev(Ctx(i), "reply:final"), "shutdown.finalReply"))
     ELSE Commit(i, ShutdownCatch(Ctx(i)))
  /\ UNCHANGED <<config, now, exited>>
  /\ UNCHANGED bvars

ShutdownFinalReplySettles(i, ok) ==
  /\ ~exited
  /\ reqs[i].pc = "shutdown.finalReply"
  /\ IF ok THEN Commit(i, At(Ev(Ctx(i), "log:system"), "shutdown.sleep"))
     ELSE Commit(i, ShutdownCatch(Ctx(i)))
  /\ UNCHANGED <<config, now, exited>>
  /\ UNCHANGED bvars

\* the 2 s timer fires and execute calls process.exit(0)
ShutdownSleepElapses(i) ==
  /\ ~exited
  /\ reqs[i].pc = "shutdown.sleep"
  /\ Commit(i, At(Ev(Ctx(i), "exit"), "done"))
  /\ exited' = TRUE
  /\ UNCHANGED <<config, now>>
  /\ UNCHANGED bvars

ShutdownErrReplySettles(i, ok) ==
  /\ ~exited
  /\ reqs[i].pc = "shutdown.errReply"
  /\ IF ok THEN Commit(i, At(Ctx(i), "done"))
     ELSE Commit(i, At(Ev(Ev(Ctx(i), "bot.catch"), "log:error"), "done"))
  /\ UNCHANGED <<config, now, exited>>
  /\ UNCHANGED bvars

\* incrementCommandCount never rejects; the "processing" reply is sent
Ytmp4CountSettles(i) ==
  /\ ~exited
  /\ reqs[i].pc = "ytmp4.count"
  /\ Commit(i, At(Ev(Ctx(i), "reply:download_started"), "ytmp4.statusReply"))
  /\ UNCHANGED <<config, now, exited>>
  /\ UNCHANGED bvars

\* the "processing" reply settles; downloadYoutubeMp4 sets its 5 s timer
Ytmp4StatusReplySettles(i, ok) ==
  /\ ~exited
  /\ reqs[i].pc = "ytmp4.statusReply"
  /\ IF ok THEN Commit(i, At(Ev(Ctx(i), "download"), "ytmp4.download"))
     ELSE Commit(i, Ytmp4Catch(Ctx(i)))
  /\ UNCHANGED <<config, now, exited>>
  /\ UNCHANGED bvars

\* the timer callback of downloadYoutubeMp4 runs: without a video id the
\* promise is rejected, otherwise the placeholder file is written
Ytmp4TimerFires(i, written) ==
  /\ ~exited
  /\ reqs[i].pc = "ytmp4.download"
  /\ LET st == IF reqs[i].kind = "ytmp4:noid" THEN Ytmp4DownloadCatch(Ctx(i))
               ELSE IF written THEN At(Ev(Ctx(i), "edit:download_complete"), "ytmp4.infoEdit")
               ELSE TimerThrows(Ctx(i))
     IN /\ Commit(i, st)
        /\ exited' = Has(st.r.trace, "exit")
  /\ UNCHANGED <<config, now>>
  /\ UNCHANGED bvars

\* the edit with the download info settles; the video is sent
Ytmp4InfoEditSettles(i, ok) ==
  /\ ~exited
  /\ reqs[i].pc = "ytmp4.infoEdit"
  /\ IF ok THEN Commit(i, At(Ev(Ctx(i), "replyWithVideo"), "ytmp4.video"))
     ELSE Commit(i, Ytmp4DownloadCatch(Ctx(i)))
  /\ UNCHANGED <<config, now, exited>>
  /\ UNCHANGED bvars

\* replyWithVideo settles: sent, refused as too big, or failed otherwise
Ytmp4VideoSettles(i, outcome) ==
  /\ ~exited
  /\ reqs[i].pc = "ytmp4.video"
  /\ CASE outcome = "sent"   -> Commit(i, Ytmp4Logged(Ctx(i)))
       [] outcome = "tooBig" -> Commit(i, At(Ev(Ctx(i), "reply:file_too_large"), "ytmp4.tooBigReply"))
       [] OTHER              -> Commit(i, Ytmp4DownloadCatch(Ctx(i)))
  /\ UNCHANGED <<config, now, exited>>
  /\ UNCHANGED bvars

Ytmp4TooBigReplySettles(i, ok) ==
  /\ ~exited
  /\ reqs[i].pc = "ytmp4.tooBigReply"
  /\ IF ok THEN Commit(i, Ytmp4Logged(Ctx(i))) ELSE Commit(i, Ytmp4DownloadCatch(Ctx(i)))
  /\ UNCHANGED <<config, now, exited>>
  /\ UNCHANGED bvars

\* the edit to the error text settles; its rejection reaches the outer catch
Ytmp4FailEditSettles(i, ok) ==
  /\ ~exited
  /\ reqs[i].pc = "ytmp4.failEdit"
  /\ IF ok THEN Commit(i, Ytmp4Logged(Ctx(i))) ELSE Commit(i, Ytmp4Catch(Ctx(i)))
  /\ UNCHANGED <<config, now, exited>>
  /\ UNCHANGED bvars

Ytmp4ErrReplySettles(i, ok) ==
  /\ ~exited
  /\ reqs[i].pc = "ytmp4.errReply"
  /\ IF ok THEN Commit(i, At(Ctx(i), "done"))
     ELSE Commit(i, At(Ev(Ev(Ctx(i), "bot.catch"), "log:error"), "done"))
  /\ UNCHANGED <<config, now, exited>>
  /\ UNCHANGED bvars

\* the body of a user handler, a callback handler or broadcast returns
BodyCompletes(i) ==
  /\ ~exited
  /\ reqs[i].pc = "body"
  /\ Commit(i, At(Ctx(i), "done"))
  /\ UNCHANGED <<config, now, exited>>
  /\ UNCHANGED bvars

\* variant: the sweep keeps the timestamps of half the window only
SweepEntryHalfWindow(requests, t, timeWindow) == ValidRequests(requests, t, timeWindow \div 2)

\* the setInterval callback of floodControl.js
SweepEntry(requests, t, timeWindow) == ValidRequests(requests, t, timeWindow)

\* variant: a user whose array became empty is kept in the Map
SweepKeepsEmpty ==
  /\ ~exited
  /\ userRequests' = [u \in DOMAIN userRequests |-> SweepEntry(userRequests[u], now, TimeWindow)]
  /\ UNCHANGED <<config, now, reqs, exited>>
  /\ UNCHANGED bvars

Sweep ==
  /\ ~exited
  /\ LET kept == {u \in DOMAIN userRequests : SweepEntry(userRequests[u], now, TimeWindow) # <<>>} IN
       userRequests' = [u \in kept |-> SweepEntry(userRequests[u], now, TimeWindow)]
  /\ UNCHANGED <<config, now, reqs, exited>>
  /\ UNCHANGED bvars

Tick ==
  /\ ~exited
  /\ now < MaxTicks * TickMs
  /\ now' = now + TickMs
  /\ UNCHANGED <<config, userRequests, reqs, exited>>
  /\ UNCHANGED bvars

NextAdmit ==
  \/ \E sh \in AdmitShapes : Update(sh[1], sh[2])
  \/ \E i \in 1..Len(reqs), ok \in BOOLEAN : FloodReplySettles(i, ok)
  \/ \E i \in 1..Len(reqs) : AddUserSettles(i)
  \/ \E i \in 1..Len(reqs) : BodyCompletes(i)
  \/ Sweep
  \/ Tick

SpecAdmit == InitAdmit /\ [][NextAdmit]_vars

NextGate ==
  \/ \E sh \in GateShapes : Update(sh[1], sh[2])
  \/ \E i \in 1..Len(reqs), ok \in BOOLEAN : FloodReplySettles(i, ok)
  \/ \E i \in 1..Len(reqs) : AddUserSettles(i)
  \/ \E i \in 1..Len(reqs), ok \in BOOLEAN : IsAdminDenyReplySettles(i, ok)
  \/ \E i \in 1..Len(reqs), ok \in BOOLEAN : IsAdminErrReplySettles(i, ok)
  \/ \E i \in 1..Len(reqs), ok \in BOOLEAN : ShutdownDenyReplySettles(i, ok)
  \/ \E i \in 1..Len(reqs), ok \in BOOLEAN : ShutdownConfirmReplySettles(i, ok)
  \/ \E i \in 1..Len(reqs), ok \in BOOLEAN : ShutdownFinalReplySettles(i, ok)
  \/ \E i \in 1..Len(reqs) : ShutdownSleepElapses(i)
  \/ \E i \in 1..Len(reqs), ok \in BOOLEAN : ShutdownErrReplySettles(i, ok)
  \/ \E i \in 1..Len(reqs) : BodyCompletes(i)

SpecGate == InitGate /\ [][NextGate]_vars

\* -------------------------------------------------------- fail-closed runs
\* admin commands in updates without a sender (ctx.from is undefined) and
\* of the users 2 and 3
FailClosedShapes == ({NoFrom} \X {"broadcast", "shutdown"}) \cup ({2, 3} \X {"broadcast"})

NextFailClosed ==
  \/ \E sh \in FailClosedShapes : Update(sh[1], sh[2])
  \/ \E i \in 1..Len(reqs), ok \in BOOLEAN : FloodReplySettles(i, ok)
  \/ \E i \in 1..Len(reqs) : AddUserSettles(i)
  \/ \E i \in 1..Len(reqs), ok \in BOOLEAN : IsAdminDenyReplySettles(i, ok)
  \/ \E i \in 1..Len(reqs), ok \in BOOLEAN : IsAdminErrReplySettles(i, ok)
  \/ \E i \in 1..Len(reqs) : BodyCompletes(i)

SpecFailClosed == InitGate /\ [][NextFailClosed]_vars

\* ---------------------------------------------------------- cooldown runs
\* the clock advances by half a tick, so that waits are not whole seconds
Advance ==
  /\ ~exited
  /\ now < MaxTicks * TickMs
  /\ now' = now + TickMs \div 2
  /\ UNCHANGED <<config, userRequests, reqs, exited>>
  /\ UNCHANGED bvars

\* the settings of the cooldown runs: nobody but the owner is exempt, limits
\* of one and two requests, a window of one and a half ticks
CooldownConfigs == [OWNER_ID : {OwnerId}, ADMINS : {<<>>}, MAX_REQUESTS : {<<1>>, <<2>>}, TIME_WINDOW : {<<(3 * TickMs) \div 2>>}]

InitCooldown ==
  /\ config \in CooldownConfigs
  /\ now = 0
  /\ userRequests = << >>
  /\ reqs = << >>
  /\ exited = FALSE
  /\ BroadcastIdle

\* the users 2 and 3 send commands, one more than MaxUpdates in all; the
\* requests that were let through stay at their first await
NextCooldown ==
  \/ \E u \in {2, 3} : Len(reqs) < MaxUpdates + 1 /\ Arrive(u, "start")
  \/ \E i \in 1..Len(reqs), ok \in BOOLEAN : FloodReplySettles(i, ok)
  \/ Sweep
  \/ Advance

SpecCooldown == InitCooldown /\ [][NextCooldown]_vars

\* ============================================================ broadcast.js
\* A broadcast context is the job together with the log entries that the
\* synchronous code it runs has handed to logger.log.
JAt(c, pc) == [c EXCEPT !.job.pc = pc]

JLog(c, type, rcpt) == [c EXCEPT !.logs = @ \cup {[type |-> type, rcpt |-> rcpt]}]

Min(a, b) == IF a < b THEN a ELSE b

\* Math.round(processedCount / totalUsers * 100)
Percent(count, total) == (200 * count + total) \div (2 * total)

\* variant: the test for an empty snapshot never holds
IsEmptySnapshotNever(users) == Len(users) < 0

\* totalUsers === 0
IsEmptySnapshot(users) == Len(users) = 0

\* variant: a last batch that is not full is left out
NumBatchesFloor(n) == n \div BatchSize

\* batches.length after the loop `for (i = 0; i < users.length; i += batchSize)`
NumBatches(n) == (n + BatchSize - 1) \div BatchSize

\* variant: each slice takes one record too many
BatchIndicesOverlap(n, b) == {i \in 1..n : (b - 1) * BatchSize < i /\ i <= b * BatchSize + 1}

\* the positions in users of batch b (from 1): users.slice(i, i + batchSize)
\* with i = (b - 1) * batchSize
BatchIndices(n, b) == {i \in 1..n : (b - 1) * BatchSize < i /\ i <= Min(n, b * BatchSize)}

\* the batch being processed: batchIndex counts from 0
CurrentBatch(job) == BatchIndices(Len(job.users), job.batchIndex + 1)

\* variant: the recipients are read from the directory again for every batch
StartBatchRequery(c) ==
  LET n == Len(directory)
      old == c.job
      job == [old EXCEPT !.users = directory,
                         !.sends = [i \in 1..n |-> IF i <= Len(old.sends) THEN old.sends[i] ELSE "none"],
                         !.calls = [i \in 1..n |-> IF i <= Len(old.calls) THEN old.calls[i] ELSE 0]]
      members == CurrentBatch(job)
  IN JAt([c EXCEPT !.job = [job EXCEPT !.sends = [i \in 1..n |-> IF i \in members THEN "inflight" ELSE job.sends[i]],
                                       !.calls = [i \in 1..n |-> IF i \in members THEN job.calls[i] + 1 ELSE job.calls[i]]]],
         "batch")

\* batch.map(...): sendMessageToUser is called for every member of the batch
\* and each call invokes bot.telegram.sendMessage before its first await
StartBatch(c) ==
  LET job == c.job
      members == CurrentBatch(job)
  IN JAt([c EXCEPT !.job.sends = [i \in 1..Len(job.users) |-> IF i \in members THEN "inflight" ELSE job.sends[i]],
                   !.job.calls = [i \in 1..Len(job.users) |-> IF i \in members THEN job.calls[i] + 1 ELSE job.calls[i]]],
         "batch")

\* variant: every outcome is counted as a delivery
TallyAlwaysSuccess(job, success) == [job EXCEPT !.successCount = @ + 1, !.processedCount = @ + 1]

\* if (success) successCount++ else failureCount++; processedCount++
Tally(job, success) ==
  IF success THEN [job EXCEPT !.successCount = @ + 1, !.processedCount = @ + 1]
  ELSE [job EXCEPT !.failureCount = @ + 1, !.processedCount = @ + 1]

\* catch block of broadcast's execute: log, then the error reply
BroadcastCatch(c) == JAt(JLog(c, "admin_command_error", 0), "errReply")

\* variant: a rejected sendMessage is not caught and rejects the batch
SendSettledUncaught(c, i, ok) ==
  IF ok THEN [c EXCEPT !.job = Tally([c.job EXCEPT !.sends[i] = "ok"], TRUE)]
  ELSE BroadcastCatch([c EXCEPT !.job.sends[i] = "fail"])

\* sendMessageToUser returns for recipient i and the map callback counts it
SendSettled(c, i, ok) ==
  IF ok THEN [c EXCEPT !.job = Tally([c.job EXCEPT !.sends[i] = "ok"], TRUE)]
  ELSE JLog([c EXCEPT !.job = Tally([c.job EXCEPT !.sends[i] = "fail"], FALSE)], "broadcast_delivery_failed", c.job.users[i])

\* variant: the batch is over as soon as one of its sends has settled
BatchSettledAny(job) == \E i \in CurrentBatch(job) : job.sends[i] \in {"ok", "fail"}

\* await Promise.all(batchPromises) returns
BatchSettled(job) == \A i \in CurrentBatch(job) : job.sends[i] \in {"ok", "fail"}

\* variant: the report carries the counts of the batch alone
ReportOfBatchOnly(job) ==
  LET done == Cardinality({i \in CurrentBatch(job) : job.sends[i] \in {"ok", "fail"}}) IN
  [batch |-> job.batchIndex + 1, delivered |-> job.successCount, failed |-> job.failureCount, processed |-> done, percent |-> Percent(done, Len(job.users))]

\* the progress message built after a batch
Report(job) ==
  [batch |-> job.batchIndex + 1, delivered |-> job.successCount, failed |-> job.failureCount, processed |-> job.processedCount, percent |-> Percent(job.processedCount, Len(job.users))]

\* the progress report is attempted: editMessageText is called with it
AttemptReport(c) == JAt([c EXCEPT !.job.reports = Append(@, Report(c.job))], "edit")

\* variant: the test for a following batch is off by one
HasNextBatchOffByOne(job) == job.batchIndex < NumBatches(Len(job.users))

\* batchIndex < batches.length - 1
HasNextBatch(job) == job.batchIndex < NumBatches(Len(job.users)) - 1

\* the completion step: the final tally is computed and the final
\* editMessageText is called
Finalize(c) == JAt([c EXCEPT !.job.final = <<[delivered |-> c.job.successCount, failed |-> c.job.failureCount, total |-> Len(c.job.users)]>>], "finalEdit")

\* variant: a failed progress edit is not swallowed
ProgressSettledAborting(c, ok) ==
  IF ~ok THEN BroadcastCatch([c EXCEPT !.job.editFailures = @ + 1])
  ELSE IF HasNextBatch(c.job) THEN JAt(c, "delay") ELSE Finalize(c)

\* the progress edit settles; a rejection is swallowed by the inner try/catch
ProgressSettled(c, ok) ==
  LET c1 == IF ok THEN c ELSE [c EXCEPT !.job.editFailures = @ + 1] IN
  IF HasNextBatch(c1.job) THEN JAt(c1, "delay") ELSE Finalize(c1)

\* the loop over the batches, entered with batchIndex = 0
EnterLoop(c) == IF NumBatches(Len(c.job.users)) > 0 THEN StartBatch(c) ELSE Finalize(c)

JCtx(j) == [job |-> jobs[j], logs |-> {}]

\* variant: the counters are shared by all invocations of execute
JCommitSharedTally(j, c) ==
  /\ jobs' = [k \in DOMAIN jobs |-> IF k = j THEN c.job
                                     ELSE [jobs[k] EXCEPT !.successCount = c.job.successCount, !.failureCount = c.job.failureCount, !.processedCount = c.job.processedCount]]
  /\ logTasks' = logTasks \cup {[job |-> j, type |-> e.type, rcpt |-> e.rcpt, pc |-> "read", snap |-> <<>>] : e \in c.logs}
  /\ UNCHANGED <<config, now, userRequests, reqs, exited, directory, logFile, logSettled, counts, dirTasks>>

\* store the job and hand its log entries to logger.log
JCommit(j, c) ==
  /\ jobs' = [jobs EXCEPT ![j] = c.job]
  /\ logTasks' = logTasks \cup {[job |-> j, type |-> e.type, rcpt |-> e.rcpt, pc |-> "read", snap |-> <<>>] : e \in c.logs}
  /\ UNCHANGED <<config, now, userRequests, reqs, exited, directory, logFile, logSettled, counts, dirTasks>>

\* execute is entered for admin j: the message is parsed, and with a message
\* the command is logged and getAllUsers is awaited
BroadcastStart(j, hasMessage) ==
  /\ ~exited
  /\ jobs[j].pc = "idle"
  /\ IF hasMessage THEN JCommit(j, JAt(JLog(JCtx(j), "admin_command", 0), "getUsers"))
     ELSE JCommit(j, JAt(JCtx(j), "argReply"))

\* the reply about the missing message settles
ArgReplySettles(j, ok) ==
  /\ ~exited
  /\ jobs[j].pc = "argReply"
  /\ IF ok THEN JCommit(j, JAt(JCtx(j), "done")) ELSE JCommit(j, BroadcastCatch(JCtx(j)))

\* getAllUsers returns the directory, or [] when the file cannot be read
GetUsersSettles(j, ok) ==
  /\ ~exited
  /\ jobs[j].pc = "getUsers"
  /\ LET users == IF ok THEN directory ELSE <<>>
         c == [JCtx(j) EXCEPT !.job.fetched = TRUE, !.job.users = users, !.job.sends = [i \in 1..Len(users) |-> "none"], !.job.calls = [i \in 1..Len(users) |-> 0]]
     IN IF IsEmptySnapshot(users) THEN JCommit(j, JAt([c EXCEPT !.job.noUsersReplies = @ + 1], "noUsersReply"))
        ELSE JCommit(j, JAt(c, "confirmReply"))

NoUsersReplySettles(j, ok) ==
  /\ ~exited
  /\ jobs[j].pc = "noUsersReply"
  /\ IF ok THEN JCommit(j, JAt(JCtx(j), "done")) ELSE JCommit(j, BroadcastCatch(JCtx(j)))

ConfirmReplySettles(j, ok) ==
  /\ ~exited
  /\ jobs[j].pc = "confirmReply"
  /\ IF ok THEN JCommit(j, JAt(JCtx(j), "startReply")) ELSE JCommit(j, BroadcastCatch(JCtx(j)))

\* the "Starting broadcast" reply settles; dispatching begins with batch 0
StartReplySettles(j, ok) ==
  /\ ~exited
  /\ jobs[j].pc = "startReply"
  /\ IF ok THEN JCommit(j, EnterLoop(JCtx(j))) ELSE JCommit(j, BroadcastCatch(JCtx(j)))

\* bot.telegram.sendMessage settles for recipient i; when this was the last
\* pending send of the batch the progress report is attempted
SendSettles(j, i, ok) ==
  /\ ~exited
  /\ i \in 1..Len(jobs[j].users)
  /\ jobs[j].sends[i] = "inflight"
  /\ LET c == SendSettled(JCtx(j), i, ok) IN
       IF c.job.pc = "batch" /\ BatchSettled(c.job) THEN JCommit(j, AttemptReport(c)) ELSE JCommit(j, c)

ProgressEditSettles(j, ok) ==
  /\ ~exited
  /\ jobs[j].pc = "edit"
  /\ JCommit(j, ProgressSettled(JCtx(j), ok))

\* the 1 s timer between two batches fires and the next batch is sent
DelayElapses(j) ==
  /\ ~exited
  /\ jobs[j].pc = "delay"
  /\ JCommit(j, StartBatch([JCtx(j) EXCEPT !.job.delays = @ + 1, !.job.batchIndex = @ + 1]))

\* the final edit settles: broadcast_completed is logged, or the catch runs
FinalEditSettles(j, ok) ==
  /\ ~exited
  /\ jobs[j].pc = "finalEdit"
  /\ IF ok THEN JCommit(j, JAt(JLog([JCtx(j) EXCEPT !.job.completedLogs = @ + 1], "broadcast_completed", 0), "done"))
     ELSE JCommit(j, BroadcastCatch(JCtx(j)))

\* the error reply of the catch block settles; a rejection reaches bot.catch
ErrReplySettles(j, ok) ==
  /\ ~exited
  /\ jobs[j].pc = "errReply"
  /\ IF ok THEN JCommit(j, JAt(JCtx(j), "done")) ELSE JCommit(j, JAt(JLog(JCtx(j), "error", 0), "done"))

\* ---------------------------------------------------------------- logger.js
\* the events of a request's trace that are calls of logger.log
LogEvents == {"log:command", "log:admin_command", "log:system", "log:admin_command_error", "log:error", "log:unauthorized_access", "log:flood_control_triggered", "log:middleware_error"}

\* what identifies a call of logger.log: its caller (a broadcast job, or the
\* request -job), the type of the record and the recipient or trace position
Key(t) == [job |-> t.job, type |-> t.type, rcpt |-> t.rcpt]

\* the calls of logger.log made by the request pipeline
ReqLogTasks ==
  UNION {{[job |-> -i, type |-> reqs[i].trace[k], rcpt |-> k, pc |-> "read", snap |-> <<>>] :
            k \in {n \in 1..Len(reqs[i].trace) : reqs[i].trace[n] \in LogEvents}} : i \in 1..Len(reqs)}

\* the call has passed its read, or has finished
Started(t) == (\E w \in logTasks : Key(w) = Key(t) /\ w.pc = "write") \/ (\E d \in logSettled : Key(d) = Key(t))

\* the calls of logger.log that wait for their read of the file
PendingReads == {t \in logTasks : t.pc = "read"} \cup {t \in ReqLogTasks : ~Started(t)}

\* every call of logger.log that has been made
Submitted == {Key(t) : t \in logTasks \cup ReqLogTasks} \cup {Key(d) : d \in logSettled}

\* variant: the outer catch rethrows
LogCatchRethrows(t) == [job |-> t.job, type |-> t.type, rcpt |-> t.rcpt, stored |-> FALSE, result |-> "rejected"]

\* the outer catch of log(): the error is printed and the promise resolves
LogCatch(t) == [job |-> t.job, type |-> t.type, rcpt |-> t.rcpt, stored |-> FALSE, result |-> "resolved"]

\* log() returns after writeJSON
LogReturn(t) == [job |-> t.job, type |-> t.type, rcpt |-> t.rcpt, stored |-> TRUE, result |-> "resolved"]

\* log(): the file is read; a file that cannot be parsed or holds no array
\* counts as empty, any other exception reaches the outer catch ...
LogRead(t, outcome) ==
  /\ ~exited
  /\ t \in PendingReads
  /\ IF outcome = "throws"
     THEN /\ logTasks' = logTasks \ {t}
          /\ logSettled' = logSettled \cup {LogCatch(t)}
     ELSE /\ logTasks' = (logTasks \ {t}) \cup {[t EXCEPT !.pc = "write", !.snap = IF outcome = "ok" THEN logFile ELSE <<>>]}
          /\ UNCHANGED logSettled
  /\ UNCHANGED <<config, now, userRequests, reqs, exited, directory, jobs, logFile, counts, dirTasks>>

\* ... and written back with the new entry appended; a failed write reaches
\* the outer catch
LogWrite(t, ok) ==
  /\ ~exited
  /\ t \in logTasks /\ t.pc = "write"
  /\ IF ok
     THEN /\ logFile' = Append(t.snap, Key(t))
          /\ logSettled' = logSettled \cup {LogReturn(t)}
     ELSE /\ UNCHANGED logFile
          /\ logSettled' = logSettled \cup {LogCatch(t)}
  /\ logTasks' = logTasks \ {t}
  /\ UNCHANGED <<config, now, userRequests, reqs, exited, directory, jobs, counts, dirTasks>>

\* -------------------------------------------------------- broadcast runs
\* the configuration of the broadcast runs: user 2 is an admin
BroadcastConfig == [OWNER_ID |-> OwnerId, ADMINS |-> <<{2}>>, MAX_REQUESTS |-> <<1>>, TIME_WINDOW |-> <<2000>>]

\* the directories of the broadcast runs: n registered users
Directories == {[i \in 1..n |-> i] : n \in 0..MaxRecipients}

InitBroadcast ==
  /\ config = BroadcastConfig
  /\ now = 0
  /\ userRequests = << >>
  /\ reqs = << >>
  /\ exited = FALSE
  /\ directory \in Directories
  /\ jobs = [j \in UserIds |-> IdleJob]
  /\ logTasks = {}
  /\ logFile = <<>>
  /\ logSettled = {}
  /\ counts = NewCounts(directory)
  /\ dirTasks = <<>>

\* the steps of a broadcast job but the delay between two batches
JobSteps(j) ==
  \/ \E hasMessage \in BOOLEAN : BroadcastStart(j, hasMessage)
  \/ \E ok \in BOOLEAN : ArgReplySettles(j, ok)
  \/ \E ok \in BOOLEAN : GetUsersSettles(j, ok)
  \/ \E ok \in BOOLEAN : NoUsersReplySettles(j, ok)
  \/ \E ok \in BOOLEAN : ConfirmReplySettles(j, ok)
  \/ \E ok \in BOOLEAN : StartReplySettles(j, ok)
  \/ \E i \in 1..MaxRecipients + 1, ok \in BOOLEAN : SendSettles(j, i, ok)
  \/ \E ok \in BOOLEAN : ProgressEditSettles(j, ok)
  \/ \E ok \in BOOLEAN : FinalEditSettles(j, ok)
  \/ \E ok \in BOOLEAN : ErrReplySettles(j, ok)

\* every step of a broadcast job
JobNext(j) == JobSteps(j) \/ DelayElapses(j)

NextBroadcast == JobNext(OwnerId)

\* one broadcast of the owner; the log writes are left pending
SpecBroadcast == InitBroadcast /\ [][NextBroadcast]_vars

NextLog ==
  \/ JobSteps(OwnerId)
  \/ \E t \in PendingReads : LogRead(t, "ok")
  \/ \E t \in logTasks : LogWrite(t, TRUE)

\* the log runs: the directory fills one batch
InitLog == InitBroadcast /\ Len(directory) = BatchSize

\* one broadcast of the owner over a single batch together with the log
\* writes it starts
SpecLog == InitLog /\ [][NextLog]_vars

\* a broadcast of admin 2 while a /shutdown of the owner is handled
\* the owner sends /shutdown, once
OwnerShutdown == reqs = <<>> /\ Update(OwnerId, "shutdown")

NextShutdown ==
  \/ JobNext(2)
  \/ OwnerShutdown
  \/ \E i \in 1..Len(reqs) : AddUserSettles(i)
  \/ \E i \in 1..Len(reqs), ok \in BOOLEAN : ShutdownConfirmReplySettles(i, ok)
  \/ \E i \in 1..Len(reqs), ok \in BOOLEAN : ShutdownFinalReplySettles(i, ok)
  \/ \E i \in 1..Len(reqs) : ShutdownSleepElapses(i)
  \/ \E i \in 1..Len(reqs), ok \in BOOLEAN : ShutdownErrReplySettles(i, ok)

\* every send, reply, edit and timer of the job eventually settles
SpecShutdown == InitBroadcast /\ [][NextShutdown]_vars /\ WF_vars(JobNext(2))

\* ----------------------------------------------------------- fileHelper.js
\* variant: addUser pushes a record without looking for the id
AddUserAlwaysPush(id, ids, cnt) == [write |-> TRUE, ids |-> Append(ids, id), cnt |-> cnt @@ (id :> 0)]

\* addUser after its read: the record with this id is updated in place
\* (command_count is taken from the array read), or a new record with
\* command_count 0 is pushed
AddUserApply(id, ids, cnt) ==
  IF id \in Ids(ids) THEN [write |-> TRUE, ids |-> ids, cnt |-> cnt]
  ELSE [write |-> TRUE, ids |-> Append(ids, id), cnt |-> cnt @@ (id :> 0)]

\* incrementCommandCount after its read: nothing is written for an unknown id
IncrementApply(id, ids, cnt) ==
  IF id \in Ids(ids) THEN [write |-> TRUE, ids |-> ids, cnt |-> [cnt EXCEPT ![id] = @ + 1]]
  ELSE [write |-> FALSE, ids |-> ids, cnt |-> cnt]

\* updateUserActivity after its read: last_active alone changes
ActivityApply(id, ids, cnt) == [write |-> id \in Ids(ids), ids |-> ids, cnt |-> cnt]

DirApply(op, id, ids, cnt) ==
  CASE op = "addUser"               -> AddUserApply(id, ids, cnt)
    [] op = "incrementCommandCount" -> IncrementApply(id, ids, cnt)
    [] OTHER                        -> ActivityApply(id, ids, cnt)

DirOps == {"addUser", "incrementCommandCount", "updateUserActivity"}

\* an operation of the directory is called and awaits its read of users.json
DirCall(op, id) ==
  /\ ~exited
  /\ Len(dirTasks) < MaxUpdates + 1
  /\ dirTasks' = Append(dirTasks, [op |-> op, id |-> id, pc |-> "read", ids |-> <<>>, cnt |-> <<>>])
  /\ UNCHANGED <<config, now, userRequests, reqs, exited, directory, jobs, logTasks, logFile, logSettled, counts>>

\* readJSON settles and the array is changed in memory; a file that cannot
\* be read is an empty array for addUser and ends the other operations
DirRead(k, readable) ==
  /\ ~exited
  /\ dirTasks[k].pc = "read"
  /\ LET t == dirTasks[k]
         a == IF readable THEN DirApply(t.op, t.id, directory, counts)
              ELSE IF t.op = "addUser" THEN AddUserApply(t.id, <<>>, <<>>)
              ELSE [write |-> FALSE, ids |-> <<>>, cnt |-> <<>>]
     IN dirTasks' = [dirTasks EXCEPT ![k] = IF a.write THEN [t EXCEPT !.pc = "write", !.ids = a.ids, !.cnt = a.cnt] ELSE [t EXCEPT !.pc = "done"]]
  /\ UNCHANGED <<config, now, userRequests, reqs, exited, directory, jobs, logTasks, logFile, logSettled, counts>>

\* writeJSON settles: the file holds the array of this call, or the write
\* failed and the error was swallowed
DirWrite(k, ok) ==
  /\ ~exited
  /\ dirTasks[k].pc = "write"
  /\ IF ok THEN directory' = dirTasks[k].ids /\ counts' = dirTasks[k].cnt
     ELSE UNCHANGED <<directory, counts>>
  /\ dirTasks' = [dirTasks EXCEPT ![k].pc = IF ok THEN "written" ELSE "done"]
  /\ UNCHANGED <<config, now, userRequests, reqs, exited, jobs, logTasks, logFile, logSettled>>

\* the directory runs start with an empty directory or with user 1 registered
InitDirectory == InitBroadcast /\ Len(directory) <= 1

\* calls of the three operations for the users 1 and 2, MaxUpdates + 1 in all
NextDirectory ==
  \/ \E op \in DirOps, id \in {1, 2} : DirCall(op, id)
  \/ \E k \in 1..Len(dirTasks), readable \in BOOLEAN : DirRead(k, readable)
  \/ \E k \in 1..Len(dirTasks), ok \in BOOLEAN : DirWrite(k, ok)

SpecDirectory == InitDirectory /\ [][NextDirectory]_vars

\* ------------------------------------------------------ registration runs
\* calls of the three operations for the users 1 and 2 with users.json
\* readable and writable throughout
NextRegister ==
  \/ \E op \in DirOps, id \in {1, 2} : DirCall(op, id)
  \/ \E k \in 1..Len(dirTasks) : DirRead(k, TRUE)
  \/ \E k \in 1..Len(dirTasks) : DirWrite(k, TRUE)

SpecRegister == InitDirectory /\ [][NextRegister]_vars

\* ----------------------------------------------------------- two-job runs
\* the owner and admin 2 each invoke broadcast; the log writes are left pending
NextTwoJobs == JobNext(OwnerId) \/ JobNext(2)

SpecTwoJobs == InitBroadcast /\ [][NextTwoJobs]_vars

\* --------------------------------------------------------- snapshot runs
\* an update handled while the broadcast runs makes one call of the
\* directory: a user who is not in it registers, or user 1 runs a command
OtherUpdate ==
  /\ dirTasks = <<>>
  /\ \E op \in {"addUser", "incrementCommandCount"}, id \in {1, MaxRecipients + 1} : DirCall(op, id)

NextSnapshot ==
  \/ JobNext(OwnerId)
  \/ OtherUpdate
  \/ \E k \in 1..Len(dirTasks), readable \in BOOLEAN : DirRead(k, readable)
  \/ \E k \in 1..Len(dirTasks), ok \in BOOLEAN : DirWrite(k, ok)

\* one broadcast of the owner while the directory is being written
SpecSnapshot == InitBroadcast /\ [][NextSnapshot]_vars

\* ------------------------------------------------------------ exit runs
\* the steps of the owner's /shutdown
ShutdownSteps ==
  \/ OwnerShutdown
  \/ \E i \in 1..Len(reqs) : AddUserSettles(i)
  \/ \E i \in 1..Len(reqs), ok \in BOOLEAN : ShutdownConfirmReplySettles(i, ok)
  \/ \E i \in 1..Len(reqs), ok \in BOOLEAN : ShutdownFinalReplySettles(i, ok)
  \/ \E i \in 1..Len(reqs) : ShutdownSleepElapses(i)
  \/ \E i \in 1..Len(reqs), ok \in BOOLEAN : ShutdownErrReplySettles(i, ok)

\* a /shutdown of the owner and the log writes it starts, the storage working
NextFlush ==
  \/ ShutdownSteps
  \/ \E t \in PendingReads : LogRead(t, "ok")
  \/ \E t \in logTasks : LogWrite(t, TRUE)

SpecFlush == InitBroadcast /\ [][NextFlush]_vars

\* a /shutdown of the owner and its log writes, the storage failing at will
NextLogger ==
  \/ ShutdownSteps
  \/ \E t \in PendingReads, outcome \in {"ok", "corrupt", "throws"} : LogRead(t, outcome)
  \/ \E t \in logTasks, ok \in BOOLEAN : LogWrite(t, ok)

SpecLogger == InitBroadcast /\ [][NextLogger]_vars

\* ----------------------------------------------------------- crash runs
\* the updates of the crash runs: downloads of user 3 and the owner's /shutdown
CrashShapes == {<<3, "ytmp4">>, <<3, "ytmp4:noid">>, <<OwnerId, "shutdown">>}

NextCrash ==
  \/ \E sh \in CrashShapes : Update(sh[1], sh[2])
  \/ \E i \in 1..Len(reqs), ok \in BOOLEAN : FloodReplySettles(i, ok)
  \/ \E i \in 1..Len(reqs) : AddUserSettles(i)
  \/ \E i \in 1..Len(reqs), ok \in BOOLEAN : ShutdownConfirmReplySettles(i, ok)
  \/ \E i \in 1..Len(reqs), ok \in BOOLEAN : ShutdownFinalReplySettles(i, ok)
  \/ \E i \in 1..Len(reqs) : ShutdownSleepElapses(i)
  \/ \E i \in 1..Len(reqs), ok \in BOOLEAN : ShutdownErrReplySettles(i, ok)
  \/ \E i \in 1..Len(reqs) : Ytmp4CountSettles(i)
  \/ \E i \in 1..Len(reqs), ok \in BOOLEAN : Ytmp4StatusReplySettles(i, ok)
  \/ \E i \in 1..Len(reqs), written \in BOOLEAN : Ytmp4TimerFires(i, written)
  \/ \E i \in 1..Len(reqs), ok \in BOOLEAN : Ytmp4InfoEditSettles(i, ok)
  \/ \E i \in 1..Len(reqs), outcome \in {"sent", "tooBig", "failed"} : Ytmp4VideoSettles(i, outcome)
  \/ \E i \in 1..Len(reqs), ok \in BOOLEAN : Ytmp4TooBigReplySettles(i, ok)
  \/ \E i \in 1..Len(reqs), ok \in BOOLEAN : Ytmp4FailEditSettles(i, ok)
  \/ \E i \in 1..Len(reqs), ok \in BOOLEAN : Ytmp4ErrReplySettles(i, ok)

SpecCrash == InitBroadcast /\ [][NextCrash]_vars

\* ================================================================ claims
\* the roles as the specification states them
AdminSet == IF config.ADMINS = <<>> THEN {} ELSE config.ADMINS[1]

SpecOwner(u) == u = config.OWNER_ID

SpecAdmin(u) == SpecOwner(u) \/ u \in AdminSet

\* a configured flood-control value that is zero or negative
ConfiguredInvalid ==
  \/ config.MAX_REQUESTS # <<>> /\ config.MAX_REQUESTS[1] <= 0
  \/ config.TIME_WINDOW # <<>> /\ config.TIME_WINDOW[1] <= 0

Reqs == 1..Len(reqs)

Trace(i) == reqs[i].trace

\* the requests of u that floodControl passed on, at or before time t and
\* less than TimeWindow before it
PassedInWindow(u, t) == {j \in Reqs : reqs[j].from = u /\ reqs[j].passedAt >= 0 /\ reqs[j].passedAt <= t /\ t - reqs[j].passedAt < TimeWindow}

\* C1: with a valid configuration, the requests of one non-exempt user that
\* floodControl passes on to the pipeline within any trailing interval of
\* windowDurationMs never number more than maxRequests.
C1_PassedWithinLimit ==
  ~ConfiguredInvalid =>
    \A i \in Reqs : (reqs[i].from # NoFrom /\ ~SpecAdmin(reqs[i].from) /\ reqs[i].passedAt >= 0)
                      => Cardinality(PassedInWindow(reqs[i].from, reqs[i].passedAt)) <= MaxRequests

\* the timestamps of the checks of u that decided to allow, in arrival order,
\* restricted to those still inside the window
AcceptedInWindow(u) ==
  LET acc == SelectSeq(reqs, LAMBDA r : r.from = u /\ r.acceptedAt >= 0 /\ now - r.acceptedAt < TimeWindow)
  IN [k \in 1..Len(acc) |-> acc[k].acceptedAt]

StoredInWindow(u) ==
  IF u \in DOMAIN userRequests
  THEN SelectSeq(userRequests[u], LAMBDA t : now - t < TimeWindow)
  ELSE <<>>

\* C2: no lost update of the per-user window. The stored in-window timestamps
\* of a user are exactly the timestamps of that user's allowed checks that are
\* still in the window, whatever checks are in flight, and with a positive
\* limit they never number more than maxRequests.
C2_NoLostUpdate ==
  \A u \in UserIds :
    /\ StoredInWindow(u) = AcceptedInWindow(u)
    /\ MaxRequests > 0 => Len(AcceptedInWindow(u)) <= MaxRequests

\* two checks of one non-exempt user in flight at the same instant with the
\* window full: the first was allowed, the second rejected
C2_Witness ==
  \E i, j \in Reqs :
    /\ i < j /\ reqs[i].from = reqs[j].from /\ ~SpecAdmin(reqs[i].from)
    /\ reqs[i].acceptedAt = now /\ reqs[i].pc = "addUser.await"
    /\ reqs[j].pc = "flood.reply" /\ Len(AcceptedInWindow(reqs[i].from)) = MaxRequests

\* C3: a request that floodControl decided to reject has its
\* flood_control_triggered event logged and is never passed on to the next
\* middleware, whatever happens to the cooldown reply.
C3_RejectStopsPipeline ==
  \A i \in Reqs : Has(Trace(i), "flood.reject")
                    => Has(Trace(i), "log:flood_control_triggered") /\ ~Has(Trace(i), "floodControl.next")

\* the state part of C4
ExemptNeverLimited ==
  /\ \A i \in Reqs : SpecAdmin(reqs[i].from)
                       => Has(Trace(i), "floodControl.next") /\ ~Has(Trace(i), "flood.reject") /\ reqs[i].acceptedAt = -1
  /\ \A u \in DOMAIN userRequests : ~SpecAdmin(u)

\* the step part of C4
ExemptLeavesMap ==
  (Len(reqs') = Len(reqs) + 1 /\ SpecAdmin(reqs'[Len(reqs')].from)) => userRequests' = userRequests

\* C4: a request of the owner or of an admin is always passed on by
\* floodControl, its arrival leaves the rate-limit map as it was, and the map
\* never holds an entry for an exempt id.
C4_ExemptAlwaysAllowed == []ExemptNeverLimited /\ [][ExemptLeavesMap]_vars

\* an admin who is not the owner got two requests through in one instant
\* under a limit of one, and the map holds nothing for that admin
C4_Witness ==
  \E i, j \in Reqs :
    /\ i < j /\ reqs[i].from = reqs[j].from /\ reqs[i].from # NoFrom
    /\ SpecAdmin(reqs[i].from) /\ ~SpecOwner(reqs[i].from)
    /\ MaxRequests = 1 /\ reqs[i].passedAt = now /\ reqs[j].passedAt = now
    /\ reqs[i].from \notin DOMAIN userRequests

\* C5: when floodControl raises an error, a middleware_error event is logged
\* and the request is passed on to the next middleware, which runs as it does
\* for an allowed request.
C5_FailOpen ==
  \A i \in Reqs : Has(Trace(i), "floodControl.error")
     => /\ Pos(Trace(i), "floodControl.error") < Pos(Trace(i), "log:middleware_error")
        /\ Pos(Trace(i), "log:middleware_error") < Pos(Trace(i), "floodControl.next")
        /\ reqs[i].passedAt >= 0
        /\ reqs[i].from # NoFrom => Has(Trace(i), "addUser")

\* the cooldown reply of a rejected request failed and the request went on to
\* user registration
C5_Witness ==
  \E i \in Reqs : Has(Trace(i), "flood.reject") /\ Has(Trace(i), "floodControl.error") /\ Has(Trace(i), "addUser")

\* C6: when the configured maxRequests or windowDurationMs is zero or
\* negative, no request of a non-exempt user is rejected.
C6_InvalidConfigFailsOpen ==
  ConfiguredInvalid =>
    \A i \in Reqs : (reqs[i].from # NoFrom /\ ~SpecAdmin(reqs[i].from)) => ~Has(Trace(i), "flood.reject")

\* C7: execute of an admin-only command runs only for the owner or an admin,
\* the terminating body of shutdown runs only for the owner, and the process
\* exits only through a shutdown of the owner.
C7_GatedBodies ==
  /\ \A i \in Reqs :
       /\ (Has(Trace(i), "execute:broadcast") \/ Has(Trace(i), "execute:shutdown")) => SpecAdmin(reqs[i].from)
       /\ (Has(Trace(i), "body:shutdown") \/ Has(Trace(i), "exit")) => SpecOwner(reqs[i].from)
  /\ exited => \E i \in Reqs : Has(Trace(i), "exit") /\ SpecOwner(reqs[i].from)

\* a non-admin was denied broadcast and an admin who is not the owner was
\* denied shutdown, and both denial replies failed
C7_Witness ==
  \E i, j \in Reqs :
    /\ reqs[i].kind = "broadcast" /\ ~SpecAdmin(reqs[i].from) /\ Has(Trace(i), "isAdmin.error") /\ reqs[i].pc = "done"
    /\ reqs[j].kind = "shutdown" /\ SpecAdmin(reqs[j].from) /\ ~SpecOwner(reqs[j].from)
    /\ Has(Trace(j), "shutdown.error") /\ reqs[j].pc = "done"

\* C8: every gating failure, of isAdmin or of the owner gate of shutdown,
\* logs an unauthorized_access event and sends the fixed denial reply.
C8_GatingFailureLogged ==
  \A i \in Reqs : (Has(Trace(i), "isAdmin.deny") \/ Has(Trace(i), "shutdown.deny"))
                    => Has(Trace(i), "log:unauthorized_access") /\ Has(Trace(i), "reply:access_denied")

\* C9: the flags isAdmin leaves on the context are the classification of the
\* caller: owner iff the id is the configured owner id, admin iff owner or in
\* the admin set; owner implies admin; next() is called iff admin.
C9_Classification ==
  \A i \in Reqs : (Has(Trace(i), "isAdmin") /\ reqs[i].from # NoFrom)
     => /\ reqs[i].isOwner = SpecOwner(reqs[i].from)
        /\ reqs[i].isAdmin = SpecAdmin(reqs[i].from)
        /\ reqs[i].isOwner => reqs[i].isAdmin
        /\ Has(Trace(i), "isAdmin.next") <=> SpecAdmin(reqs[i].from)

\* the owner, also listed as an admin, and a user who is neither were both
\* classified
C9_Witness ==
  \E i, j \in Reqs :
    /\ SpecOwner(reqs[i].from) /\ reqs[i].from \in AdminSet /\ Has(Trace(i), "isAdmin") /\ reqs[i].isOwner
    /\ reqs[j].from # NoFrom /\ ~SpecAdmin(reqs[j].from) /\ Has(Trace(j), "isAdmin.deny")

HandlerEvents == {"execute:start", "action", "execute:broadcast", "execute:shutdown"}

\* C10: floodControl is the first thing run for every update; every handler,
\* callback handlers included, starts after it, and execute of an admin
\* command starts after isAdmin, which starts after floodControl.
C10_AdmissionFirst ==
  \A i \in Reqs :
    /\ Trace(i)[1] = "floodControl"
    /\ \A e \in HandlerEvents : Has(Trace(i), e) => Pos(Trace(i), "floodControl") < Pos(Trace(i), e)
    /\ \A e \in {"execute:broadcast", "execute:shutdown"} :
         Has(Trace(i), e) => /\ Pos(Trace(i), "floodControl") < Pos(Trace(i), "isAdmin")
                             /\ 0 < Pos(Trace(i), "isAdmin")
                             /\ Pos(Trace(i), "isAdmin") < Pos(Trace(i), e)

\* a callback query reached its handler and an admin command reached execute
C10_Witness ==
  \E i, j \in Reqs : Has(Trace(i), "action") /\ Has(Trace(j), "execute:broadcast")

\* ------------------------------------------------------ broadcast claims
Ok(job) == {i \in 1..Len(job.users) : job.sends[i] = "ok"}

Failed(job) == {i \in 1..Len(job.users) : job.sends[i] = "fail"}

Settled(job) == Ok(job) \cup Failed(job)

\* the job has reached its completion step
Completed(job) == job.final # <<>>

\* the batch of the recipient at position i, as the specification partitions
BatchOf(i) == ((i - 1) \div BatchSize) + 1

BatchCount(n) == IF n = 0 THEN 0 ELSE BatchOf(n)

FailureRecords(j, u) == {k \in 1..Len(logFile) : logFile[k].type = "broadcast_delivery_failed" /\ logFile[k].job = j /\ logFile[k].rcpt = u}

\* C14: once a broadcast is over and no log write is pending, the log store
\* holds one broadcast_delivery_failed record for each recipient whose send
\* failed and none for the others.
C14_FailuresLogged ==
  \A j \in UserIds :
    (jobs[j].pc = "done" /\ logTasks = {})
      => \A i \in 1..Len(jobs[j].users) :
           Cardinality(FailureRecords(j, jobs[j].users[i])) = IF i \in Failed(jobs[j]) THEN 1 ELSE 0

\* C15: a send is issued only when every send of the earlier batches has
\* settled, their progress reports were attempted and the delays between
\* them have elapsed; a batch is sent as a whole; a delay follows every batch
\* but the last.
C15_BatchesSequential ==
  \A j \in UserIds :
    LET job == jobs[j]
        n == Len(job.users)
    IN /\ \A i \in 1..n : job.sends[i] # "none"
            => /\ \A i2 \in 1..n : BatchOf(i2) < BatchOf(i) => i2 \in Settled(job)
               /\ \A i2 \in 1..n : BatchOf(i2) = BatchOf(i) => job.sends[i2] # "none"
               /\ Len(job.reports) >= BatchOf(i) - 1
               /\ job.delays >= BatchOf(i) - 1
       /\ \A k \in 1..Len(job.reports) : \A i \in 1..n : BatchOf(i) <= k => i \in Settled(job)
       /\ job.pc = "delay" => job.batchIndex + 1 < BatchCount(n)
       /\ job.delays <= job.batchIndex
       /\ Completed(job) => job.delays = BatchCount(n) - 1 /\ Settled(job) = 1..n

\* the second batch is in flight after a first batch with a failure
C15_Witness ==
  \E j \in UserIds : /\ jobs[j].pc = "batch" /\ jobs[j].batchIndex = 1 /\ jobs[j].delays = 1
                     /\ Failed(jobs[j]) # {} /\ \E i \in 1..Len(jobs[j].users) : jobs[j].sends[i] = "inflight"

\* C16: a job one of whose progress edits failed is never ended before its
\* completion step, and its final tally is the tally of the send outcomes.
C16_ProgressFailureSwallowed ==
  \A j \in UserIds :
    LET job == jobs[j] IN
    job.editFailures > 0
      => /\ job.pc \in {"errReply", "done"} => Completed(job)
         /\ job.pc = "batch" => job.batchIndex >= job.editFailures
         /\ Completed(job) => /\ job.final[1].delivered = Cardinality(Ok(job))
                              /\ job.final[1].failed = Cardinality(Failed(job))
                              /\ Cardinality(Settled(job)) = Len(job.users)

\* every progress edit of a job of two batches failed and the job completed
C16_Witness ==
  \E j \in UserIds : Completed(jobs[j]) /\ jobs[j].editFailures = 2 /\ Len(jobs[j].reports) = 2

\* the batches all of whose sends have settled
SettledBatches(job) == {b \in 1..BatchCount(Len(job.users)) : \A i \in 1..Len(job.users) : BatchOf(i) = b => i \in Settled(job)}

\* C17: the reports of a job are one per settled batch, in batch order, each
\* carrying processed = delivered + failed, and processed never decreases
\* from one report to the next.
C17_OneReportPerBatch ==
  \A j \in UserIds :
    LET job == jobs[j] IN
    /\ Len(job.reports) = Cardinality(SettledBatches(job))
    /\ \A k \in 1..Len(job.reports) :
         /\ job.reports[k].batch = k
         /\ job.reports[k].processed = job.reports[k].delivered + job.reports[k].failed
         /\ k > 1 => job.reports[k - 1].processed <= job.reports[k].processed

\* two reports were emitted, the second with a larger processed count
C17_Witness ==
  \E j \in UserIds : Len(jobs[j].reports) = 2 /\ jobs[j].reports[1].processed < jobs[j].reports[2].processed

\* C18: a broadcast that processed all its batches and is over has emitted
\* exactly one broadcast_completed record.
C18_CompletionLogged ==
  \A j \in UserIds : (Completed(jobs[j]) /\ jobs[j].pc = "done") => jobs[j].completedLogs = 1

\* C19: a job whose snapshot is empty replies "no users" once, never
\* dispatches, reports no progress and keeps delivered = failed = 0.
C19_EmptySnapshot ==
  \A j \in UserIds :
    LET job == jobs[j] IN
    (job.fetched /\ Len(job.users) = 0)
      => /\ job.noUsersReplies = 1
         /\ job.pc \in {"noUsersReply", "errReply", "done"}
         /\ job.reports = <<>> /\ job.delays = 0 /\ ~Completed(job)
         /\ job.successCount = 0 /\ job.failureCount = 0 /\ job.processedCount = 0

\* a broadcast over an empty directory is over
C19_Witness ==
  \E j \in UserIds : jobs[j].fetched /\ directory = <<>> /\ jobs[j].users = <<>> /\ jobs[j].pc = "done" /\ jobs[j].noUsersReplies = 1

\* the job is between its first send and its completion step
MidFlight(job) == job.pc \in {"batch", "edit", "delay"}

\* C20 as stated: no command handled concurrently stops a dispatching job,
\* so the process never exits while a job is between its first send and its
\* completion step.
C20_NeverStoppedMidFlight == exited => \A j \in UserIds : ~MidFlight(jobs[j])

\* C20 as amended: while the process runs, a dispatching job eventually
\* reaches its completion step, every send, edit and timer settling in the
\* end; only the exit of the process stops it.
C20_CompletesUnlessExit ==
  \A j \in UserIds : MidFlight(jobs[j]) ~> (Completed(jobs[j]) \/ exited)

\* a job of two batches reached its completion step while a shutdown of the
\* owner was waiting for its confirmation reply
C20_Witness ==
  \E j \in UserIds, i \in 1..Len(reqs) :
    Completed(jobs[j]) /\ jobs[j].delays = 1 /\ ~exited /\ reqs[i].pc = "shutdown.confirmReply"


\* ------------------------------------------------------- cooldown claims
Rejected(r) == Has(r.trace, "flood.reject")

\* the requests i < k of one user were both rejected with a counted
\* timestamp, and the user had no request accepted in between
SuccessiveRejections(i, k) ==
  /\ i < k /\ reqs[i].from = reqs[k].from
  /\ Rejected(reqs[i]) /\ Rejected(reqs[k])
  /\ reqs[i].remainingTime.finite /\ reqs[k].remainingTime.finite
  /\ \A j \in Reqs : (i < j /\ j < k /\ reqs[j].from = reqs[i].from) => reqs[j].acceptedAt < 0

\* the least c with x <= 1000 * c, for x > 0
SpecCeilSeconds(x) == CHOOSE c \in 0..(x \div 1000 + 1) : 1000 * (c - 1) < x /\ x <= 1000 * c

\* the timestamps of a sequence that are inside the window at time t
InWindow(seq, t) == {seq[k] : k \in {n \in 1..Len(seq) : t - seq[n] < TimeWindow}}

StoredOf(m, u) == IF u \in DOMAIN m THEN m[u] ELSE <<>>

\* C24 as stated: of two successive rejections of a rate-limited user the
\* later one, made at a later time, reports a strictly smaller
\* retryAfterSeconds, and 0 is never reported.
C24_StrictlyDecreasing ==
  \A i \in Reqs, k \in Reqs :
    (SuccessiveRejections(i, k) /\ reqs[i].rejectedAt < reqs[k].rejectedAt)
      => /\ reqs[k].remainingTime.value < reqs[i].remainingTime.value
         /\ reqs[k].remainingTime.value > 0

\* C24 as amended: the reported retryAfterSeconds never increases from one
\* rejection to the next, is strictly smaller once a second or more has
\* passed, and is at least 1 on every rejection that counts a timestamp.
C24_DecreasesBySeconds ==
  /\ \A i \in Reqs, k \in Reqs :
       SuccessiveRejections(i, k)
         => /\ reqs[k].remainingTime.value <= reqs[i].remainingTime.value
            /\ reqs[k].rejectedAt - reqs[i].rejectedAt >= 1000 => reqs[k].remainingTime.value < reqs[i].remainingTime.value
  /\ \A i \in Reqs : (Rejected(reqs[i]) /\ reqs[i].remainingTime.finite) => reqs[i].remainingTime.value >= 1

\* two rejections a second apart, the later with the smaller wait
C24_Witness ==
  \E i \in Reqs, k \in Reqs :
    /\ SuccessiveRejections(i, k)
    /\ reqs[k].rejectedAt - reqs[i].rejectedAt >= 1000
    /\ reqs[k].remainingTime.value < reqs[i].remainingTime.value

\* C27 as stated: in every state no stored sequence holds a timestamp older
\* than now - windowDuration.
C27_NeverStale ==
  \A u \in DOMAIN userRequests : \A k \in 1..Len(userRequests[u]) : userRequests[u][k] >= now - TimeWindow

\* C27 as amended: every step that stores a sequence in the map (an
\* accepted request, or the sweep) stores none of the earlier timestamps
\* that are outside the window; only the timestamp of the request itself is
\* added.
C27_PrunedOnWrite ==
  [][\A u \in DOMAIN userRequests' :
       (StoredOf(userRequests, u) # userRequests'[u])
         => \A k \in 1..Len(userRequests'[u]) :
              \/ now' - userRequests'[u][k] < TimeWindow
              \/ k = Len(userRequests'[u]) /\ userRequests'[u][k] = now']_vars

\* a user's second acceptance dropped the expired timestamp of the first
C27_Witness ==
  \E i \in Reqs, k \in Reqs :
    /\ i < k /\ reqs[i].from = reqs[k].from
    /\ reqs[i].acceptedAt >= 0 /\ reqs[k].acceptedAt >= reqs[i].acceptedAt + TimeWindow
    /\ reqs[k].from \in DOMAIN userRequests /\ userRequests[reqs[k].from] = <<reqs[k].acceptedAt>>

\* C28: the step that rejects a request leaves the user's in-window
\* timestamps as they were and adds nothing, and the settling of the
\* cooldown reply leaves the map untouched.
C28_RejectionRecordsNothing ==
  [][/\ \A i \in 1..Len(reqs') :
          (i > Len(reqs) /\ Rejected(reqs'[i]))
            => /\ InWindow(StoredOf(userRequests', reqs'[i].from), now) = InWindow(StoredOf(userRequests, reqs'[i].from), now)
               /\ Len(StoredOf(userRequests', reqs'[i].from)) = Len(StoredOf(userRequests, reqs'[i].from))
               /\ \A u \in DOMAIN userRequests : userRequests'[u] = userRequests[u]
     /\ (Len(reqs') = Len(reqs) /\ reqs' # reqs) => userRequests' = userRequests]_vars

\* a request was rejected later than the stored acceptance, and the time of
\* the rejection is not in the user's sequence
C28_Witness ==
  \E i \in Reqs :
    /\ Rejected(reqs[i]) /\ reqs[i].from \in DOMAIN userRequests
    /\ userRequests[reqs[i].from] # <<>>
    /\ \A k \in 1..Len(userRequests[reqs[i].from]) : userRequests[reqs[i].from][k] < reqs[i].rejectedAt

\* C29: the step that rejects a request reports
\* ceil((windowDuration - (now - oldest)) / 1000) for the smallest in-window
\* timestamp oldest of the user's sequence.
C29_ExactWait ==
  [][\A i \in 1..Len(reqs') :
       (i > Len(reqs) /\ Rejected(reqs'[i]))
         => LET pruned == InWindow(StoredOf(userRequests, reqs'[i].from), now) IN
            /\ pruned # {}
            /\ LET oldest == CHOOSE x \in pruned : \A y \in pruned : x <= y IN
               reqs'[i].remainingTime = Finite(SpecCeilSeconds(TimeWindow - (now - oldest)))]_vars

\* C30: a run of the sweep leaves in the map exactly the users that have a
\* timestamp inside the window, each with exactly those timestamps in their
\* order.
C30_SweepPrunes ==
  [][(reqs' = reqs /\ now' = now /\ userRequests' # userRequests)
       => /\ DOMAIN userRequests' = {u \in DOMAIN userRequests : InWindow(userRequests[u], now) # {}}
          /\ \A u \in DOMAIN userRequests' :
               /\ userRequests'[u] # <<>>
               /\ userRequests'[u] = SelectSeq(userRequests[u], LAMBDA ts : now - ts < TimeWindow)]_vars

\* the sweep deleted one user and kept another
C30_Witness ==
  \E i \in Reqs, k \in Reqs :
    /\ reqs[i].acceptedAt >= 0 /\ reqs[i].from \notin DOMAIN userRequests
    /\ reqs[k].acceptedAt >= 0 /\ reqs[k].from \in DOMAIN userRequests
    /\ userRequests[reqs[k].from] = <<reqs[k].acceptedAt>>


\* ---------------------------------------------------------- logger claims
\* C21: when the process has exited, the write of every record handed to
\* logger.log before the exit has been made.
C21_FlushedBeforeExit ==
  exited => \A k \in Submitted : \E d \in logSettled : Key(d) = k /\ d.stored

\* C22: every call of logger.log that has finished has resolved, whatever
\* the storage did, and the step in which it finishes changes nothing of its
\* caller.
C22_LogNeverThrows ==
  /\ [](\A d \in logSettled : d.result = "resolved")
  /\ [][logSettled' # logSettled => (reqs' = reqs /\ jobs' = jobs /\ exited' = exited)]_vars

\* a record of /shutdown could not be written and the handler went on to exit
C22_Witness ==
  /\ exited
  /\ \E d \in logSettled : ~d.stored /\ d.type = "log:admin_command" /\ d.result = "resolved"


\* C23: the process has exited only through the owner's /shutdown: no error
\* of a request or of a delivery ends it.
C23_OnlyShutdownExits ==
  exited => \E i \in Reqs : reqs[i].kind = "shutdown" /\ reqs[i].from = config.OWNER_ID /\ Has(reqs[i].trace, "exit")


\* -------------------------------------------------------- directory claims
NoDuplicateIds(ids) == \A a \in 1..Len(ids), b \in 1..Len(ids) : ids[a] = ids[b] => a = b

\* C25: neither the directory nor an array about to be written holds two
\* records with one id; an addUser that found its id in the file it read
\* writes the records it read, in their order, and an addUser about to write
\* holds exactly one record of its id.
C25_UniqueIds ==
  /\ [](/\ NoDuplicateIds(directory) /\ DOMAIN counts = Ids(directory)
        /\ \A k \in 1..Len(dirTasks) :
             dirTasks[k].pc = "write"
               => /\ NoDuplicateIds(dirTasks[k].ids)
                  /\ dirTasks[k].op = "addUser" => Cardinality({a \in 1..Len(dirTasks[k].ids) : dirTasks[k].ids[a] = dirTasks[k].id}) = 1)
  /\ [][\A k \in 1..Len(dirTasks) :
          (dirTasks[k].op = "addUser" /\ dirTasks[k].pc = "read" /\ dirTasks'[k].pc = "write" /\ dirTasks[k].id \in Ids(directory))
            => (dirTasks'[k].ids = directory \/ dirTasks'[k].ids = <<dirTasks[k].id>>)]_vars

\* two addUser calls for user 2 have written and one record of user 2 exists
C25_Witness ==
  \E j \in 1..Len(dirTasks), k \in 1..Len(dirTasks) :
    /\ j < k /\ dirTasks[j].op = "addUser" /\ dirTasks[k].op = "addUser"
    /\ dirTasks[j].id = 2 /\ dirTasks[k].id = 2
    /\ dirTasks[j].pc = "written" /\ dirTasks[k].pc = "written"
    /\ Cardinality({a \in 1..Len(directory) : directory[a] = 2}) = 1

\* C26: no step lowers the stored commandCount of a user.
C26_CountNeverDecreases ==
  [][\A id \in DOMAIN counts \cap DOMAIN counts' : counts'[id] >= counts[id]]_vars


\* ---------------------------------------------------- sweep and admission
\* the timestamps of a sequence inside the window at time t, in their order
KeptInWindow(seq, t) == SelectSeq(seq, LAMBDA ts : t - ts < TimeWindow)

\* this step is the acceptance of a request of u
AcceptsFor(u) == Len(reqs') = Len(reqs) + 1 /\ reqs'[Len(reqs')].from = u /\ reqs'[Len(reqs')].acceptedAt >= 0

\* C31: no step, of the sweep or of an admission check, loses or replaces a
\* stored timestamp that is inside the window: an acceptance appends its own
\* timestamp to the in-window timestamps its user had, and every other step
\* leaves them as they were.
C31_NoTimestampLost ==
  [][\A u \in UserIds :
       LET before == KeptInWindow(StoredOf(userRequests, u), now')
           after == KeptInWindow(StoredOf(userRequests', u), now')
       IN IF AcceptsFor(u) THEN after = Append(before, now) ELSE after = before]_vars

\* a user was accepted three times; the two acceptances inside the window
\* are stored in their order and the expired one is gone
C31_Witness ==
  \E i \in Reqs, j \in Reqs, k \in Reqs :
    /\ i < j /\ j < k /\ reqs[i].from = reqs[j].from /\ reqs[j].from = reqs[k].from
    /\ reqs[i].acceptedAt >= 0 /\ reqs[j].acceptedAt > reqs[i].acceptedAt /\ reqs[k].acceptedAt > reqs[j].acceptedAt
    /\ now - reqs[i].acceptedAt >= TimeWindow
    /\ StoredOf(userRequests, reqs[k].from) = <<reqs[j].acceptedAt, reqs[k].acceptedAt>>


\* ------------------------------------------------------- snapshot claims
\* C32: the recipients of a job are the directory as getAllUsers returned
\* it; no later step changes them, whatever is written to the directory,
\* and the sends, the reports and the total of the job range over them alone.
C32_SnapshotFixed ==
  /\ [](\A j \in UserIds :
          LET job == jobs[j] IN
          /\ Len(job.sends) = Len(job.users) /\ Len(job.calls) = Len(job.users)
          /\ \A k \in 1..Len(job.reports) : job.reports[k].processed <= Len(job.users)
                                              /\ job.reports[k].percent = Percent(job.reports[k].processed, Len(job.users))
          /\ Completed(job) => job.final[1].total = Len(job.users) /\ Cardinality(Settled(job)) = Len(job.users))
  /\ [][\A j \in UserIds :
          /\ jobs[j].fetched => jobs'[j].users = jobs[j].users
          /\ (~jobs[j].fetched /\ jobs'[j].fetched) => jobs'[j].users \in {directory, <<>>}]_vars

\* a user registered after the snapshot was taken and the job completed
\* over the recipients of the snapshot
C32_Witness ==
  \E j \in UserIds :
    /\ Completed(jobs[j]) /\ Len(jobs[j].users) >= 1
    /\ Len(directory) = Len(jobs[j].users) + 1
    /\ \E k \in 1..Len(dirTasks) : dirTasks[k].op = "addUser" /\ dirTasks[k].pc = "written"


\* -------------------------------------------------------- limiter claims
\* the limit and the window as config.json gives them
ConfiguredLimit == IF config.MAX_REQUESTS = <<>> THEN DefaultMaxRequests ELSE config.MAX_REQUESTS[1]

ConfiguredWindow == IF config.TIME_WINDOW = <<>> THEN DefaultTimeWindow ELSE config.TIME_WINDOW[1]

\* the earlier requests of u that were accepted less than a window before t
AcceptedBefore(u, t) == {j \in Reqs : reqs[j].from = u /\ reqs[j].acceptedAt >= 0 /\ t - reqs[j].acceptedAt < ConfiguredWindow}

\* C33: with a positive limit and window, the step that checks a request of
\* a rate-limited user rejects it only when at least maxRequests of the
\* user's accepted requests are inside the window, and otherwise accepts it
\* at the time of the check and passes it on.
C33_UnderLimitAllowed ==
  [][(ConfiguredLimit > 0 /\ ConfiguredWindow > 0 /\ Len(reqs') = Len(reqs) + 1)
       => LET r == reqs'[Len(reqs')] IN
          (r.from # NoFrom /\ ~SpecAdmin(r.from) /\ Cardinality(AcceptedBefore(r.from, now)) < ConfiguredLimit)
            => ~Rejected(r) /\ r.acceptedAt = now /\ Has(r.trace, "floodControl.next")]_vars

\* under a limit of one a user was accepted, rejected inside the window and
\* accepted again once the window had passed
C33_Witness ==
  \E i \in Reqs, j \in Reqs, k \in Reqs :
    /\ i < j /\ j < k /\ reqs[i].from = reqs[j].from /\ reqs[j].from = reqs[k].from
    /\ ConfiguredLimit = 1
    /\ reqs[i].acceptedAt >= 0 /\ Rejected(reqs[j])
    /\ reqs[k].acceptedAt >= reqs[i].acceptedAt + ConfiguredWindow

\* C34: with a positive limit, no sequence stored in the rate-limit map is
\* longer than maxRequests.
C34_StoredAtMostLimit ==
  ConfiguredLimit > 0 => \A u \in DOMAIN userRequests : Len(userRequests[u]) <= ConfiguredLimit

\* a user's sequence is full, a further request of the user was rejected and
\* the sequence still holds a timestamp that has left the window
C34_Witness ==
  \E i \in Reqs :
    /\ Rejected(reqs[i]) /\ reqs[i].from \in DOMAIN userRequests
    /\ ConfiguredLimit = 2 /\ Len(userRequests[reqs[i].from]) = 2
    /\ now - userRequests[reqs[i].from][1] >= ConfiguredWindow

\* the time at which floodControl checked a request
CheckTime(r) == IF r.acceptedAt >= 0 THEN r.acceptedAt ELSE r.rejectedAt

RECURSIVE NoSweep(_)

\* the rate-limit map after the checks of the first k requests, made at
\* their times, when the sweep never runs
NoSweep(k) ==
  IF k = 0 THEN << >>
  ELSE LET m == NoSweep(k - 1)
           u == reqs[k].from
           t == CheckTime(reqs[k])
           m1 == IF u \in DOMAIN m THEN m ELSE m @@ (u :> <<>>)
           validRequests == ValidRequests(m1[u], t, TimeWindow)
       IN IF OverLimit(validRequests, MaxRequests) THEN m1
          ELSE [m1 EXCEPT ![u] = Append(validRequests, t)]

\* the decision on request k, and the wait it reports, when the sweep never runs
NoSweepDecision(k) ==
  LET validRequests == ValidRequests(StoredOf(NoSweep(k - 1), reqs[k].from), CheckTime(reqs[k]), TimeWindow) IN
  IF OverLimit(validRequests, MaxRequests)
  THEN [rejected |-> TRUE, remainingTime |-> RemainingTime(validRequests, CheckTime(reqs[k]), TimeWindow)]
  ELSE [rejected |-> FALSE, remainingTime |-> Infinity]

\* C35: every check was decided, and every rejection reports the wait, as
\* the same checks at the same times are decided when the sweep never runs.
C35_SweepTransparent ==
  \A k \in Reqs :
    /\ Rejected(reqs[k]) = NoSweepDecision(k).rejected
    /\ reqs[k].remainingTime = NoSweepDecision(k).remainingTime

\* the sweep has deleted the expired entry of one user, which is still there
\* when the sweep never runs, and another user was checked after the expiry
C35_Witness ==
  \E i \in Reqs :
    /\ reqs[i].acceptedAt >= 0
    /\ reqs[i].from \notin DOMAIN userRequests
    /\ reqs[i].from \in DOMAIN NoSweep(Len(reqs))
    /\ \E k \in Reqs : k > i /\ reqs[k].from # reqs[i].from /\ CheckTime(reqs[k]) >= reqs[i].acceptedAt + TimeWindow


\* --------------------------------------------------------- progress claims
\* C36: in every state of a job processedCount = successCount +
\* failureCount <= totalUsers; the report of the k-th batch carries
\* processedCount = min(k * batchSize, totalUsers); a completed job has
\* reported every batch and its last report shows 100% with
\* processedCount = totalUsers.
C36_ProcessedCount ==
  \A j \in UserIds :
    LET job == jobs[j]
        n == Len(job.users)
    IN /\ job.processedCount = job.successCount + job.failureCount
       /\ job.processedCount <= n
       /\ \A k \in 1..Len(job.reports) : job.reports[k].processed = Min(k * BatchSize, n)
       /\ Completed(job) => /\ Len(job.reports) = BatchCount(n)
                            /\ job.reports[Len(job.reports)].processed = n
                            /\ job.reports[Len(job.reports)].percent = 100

\* a completed job whose last batch was not full: the first report is below
\* 100% and the last one shows 100%
C36_Witness ==
  \E j \in UserIds :
    LET job == jobs[j] IN
    /\ Completed(job) /\ Len(job.users) > BatchSize /\ Len(job.users) < 2 * BatchSize
    /\ Len(job.reports) = 2
    /\ job.reports[1].processed = BatchSize /\ job.reports[1].percent < 100
    /\ job.reports[2].processed = Len(job.users) /\ job.reports[2].percent = 100


\* C37: a step of one job changes nothing of another job; the reports of a
\* job count the settled sends of its own batches and its final tally its
\* own recipients, delivered + failed being the size of its own snapshot.
C37_JobsIsolated ==
  /\ [](\A j \in UserIds :
          LET job == jobs[j]
              n == Len(job.users)
          IN /\ job.successCount + job.failureCount = Cardinality(Settled(job))
             /\ \A k \in 1..Len(job.reports) :
                  job.reports[k].delivered + job.reports[k].failed = Cardinality({i \in 1..n : BatchOf(i) <= k})
             /\ Completed(job) => /\ job.final[1].delivered + job.final[1].failed = n
                                  /\ job.final[1].delivered = Cardinality(Ok(job))
                                  /\ job.final[1].failed = Cardinality(Failed(job)))
  /\ [][\A j \in UserIds, k \in UserIds : (j # k /\ jobs'[j] # jobs[j]) => jobs'[k] = jobs[k]]_vars

\* two jobs are between two batches at the same time: the first batch of
\* one was delivered in full and the first batch of the other failed in full
C37_Witness ==
  \E j \in UserIds, k \in UserIds :
    /\ j # k /\ jobs[j].pc = "delay" /\ jobs[k].pc = "delay"
    /\ jobs[j].successCount = BatchSize /\ jobs[j].failureCount = 0
    /\ jobs[k].failureCount = BatchSize /\ jobs[k].successCount = 0
    /\ jobs[j].reports[1].delivered = BatchSize /\ jobs[k].reports[1].failed = BatchSize


\* ----------------------------------------------------- registration claims
\* C38: a user whose addUser call has written its record is in the
\* directory from then on, whatever calls run concurrently.
C38_RegistrationKept ==
  \A k \in 1..Len(dirTasks) :
    (dirTasks[k].op = "addUser" /\ dirTasks[k].pc = "written") => dirTasks[k].id \in Ids(directory)


\* ------------------------------------------------------ fail-closed claims
\* C39: a request on which isAdmin raised an error has its middleware_error
\* logged and the error reply sent, next() was not called for it and execute
\* of the gated command has not run, also when floodControl had raised an
\* error on the same request and passed it on.
C39_FailClosed ==
  \A i \in Reqs :
    Has(Trace(i), "isAdmin.error")
      => /\ ~Has(Trace(i), "isAdmin.next")
         /\ ~Has(Trace(i), "execute:broadcast") /\ ~Has(Trace(i), "execute:shutdown") /\ ~Has(Trace(i), "body:shutdown")
         /\ reqs[i].pc \in {"isAdmin.errReply", "done"}
         /\ ~reqs[i].isAdmin /\ ~reqs[i].isOwner
         /\ Pos(Trace(i), "isAdmin.error") < Pos(Trace(i), "reply:system_error")
         /\ \E k \in 1..Len(Trace(i)) : k > Pos(Trace(i), "isAdmin.error") /\ Trace(i)[k] = "log:middleware_error"

\* floodControl raised an error on an admin command without a sender and
\* passed it on, isAdmin raised an error on it and the request is over
C39_Witness ==
  \E i \in Reqs :
    /\ reqs[i].from = NoFrom /\ reqs[i].kind = "broadcast"
    /\ Has(Trace(i), "floodControl.error") /\ Has(Trace(i), "floodControl.next")
    /\ Pos(Trace(i), "floodControl.next") < Pos(Trace(i), "isAdmin.error")
    /\ reqs[i].pc = "done"

====
